---- MODULE Spec2Model ----
(***************************************************************************)
(* Model of app.py, the nonprofit enrichment pipeline: column inference,   *)
(* name join against the IRS BMF table, concurrent ProPublica lookups,     *)
(* merge by EIN and the two-pass deduplication.                            *)
(*                                                                         *)
(* Strings are sequences of one-character strings, so that lower(),        *)
(* strip() and Python's string ordering are computed, not assumed.  A     *)
(* DataFrame is a record [cols, rows]: cols is the set of column labels,   *)
(* rows the sequence of rows in frame order; a row always carries every    *)
(* field and holds Null (NaN) in the fields of columns it does not have.   *)
(* The uploaded table is modelled with its name column only; the field up  *)
(* (the position of the uploaded row) stands for its pass-through cells,   *)
(* none of which bears the label of a reference column.  A reference table *)
(* that is not empty has the six columns line 82 selects.                  *)
(***************************************************************************)
EXTENDS Integers, Sequences, FiniteSets, TLC

VARIABLES
    bmf_load,            \* which return of load_bmf_data produced bmf_data
    bmf_data,            \* the global reference table (sequence of records)
    uploaded_file,       \* the uploaded CSV: the raw cells of its name column
    org_name_column,     \* the column chosen by clean_uploaded_data
    uploaded_data,       \* the frame bound to uploaded_data in the run
    eins_to_fetch,       \* Step 2's list
    tasks,               \* per EIN of the batch: "pending", "ok" or "none"
    enriched_data_list,  \* what asyncio.run(fetch_all_propublica(..)) returned
    propublica_df,       \* Step 3's frame
    dedup_local,         \* deduplicate_data's local frame after its first if
    pc,                  \* position of the run
    error,               \* the exception that ended the run, if any
    possible_columns,    \* argument of find_best_column_match
    kw,                  \* index of the keyword the loop is at
    scores,              \* the score extractOne gave for each keyword so far
    col_result,          \* value returned by find_best_column_match
    cpc                  \* position of find_best_column_match

vars == <<bmf_load, bmf_data, uploaded_file, org_name_column, uploaded_data,
          eins_to_fetch, tasks, enriched_data_list, propublica_df, dedup_local,
          pc, error, possible_columns, kw, scores, col_result, cpc>>

colVars == <<possible_columns, kw, scores, col_result, cpc>>

(***************************************************************************)
(* Bounds of the model.                                                    *)
(***************************************************************************)
MaxBmf == 2      \* rows of the reference table
MaxUp == 2       \* rows of the uploaded table
MaxRows == 2     \* rows of a table handed directly to deduplicate_data
MaxCols == 2     \* columns handed to find_best_column_match

(***************************************************************************)
(* Strings.                                                                *)
(***************************************************************************)
Null == <<"NaN">>            \* pandas' missing value
NA == <<"N", "/", "A">>      \* the literal "N/A"
None == <<"None">>           \* Python's None as a returned value

\* ord(c) for the characters the model uses
Code(c) ==
    CASE c = " " -> 32 [] c = "/" -> 47
      [] c = "0" -> 48 [] c = "1" -> 49 [] c = "2" -> 50 [] c = "3" -> 51
      [] c = "4" -> 52 [] c = "5" -> 53 [] c = "9" -> 57
      [] c = "A" -> 65 [] c = "B" -> 66 [] c = "C" -> 67 [] c = "N" -> 78
      [] c = "R" -> 82 [] c = "b" -> 98 [] c = "c" -> 99 [] c = "i" -> 105
      [] c = "n" -> 110 [] c = "r" -> 114 [] c = "u" -> 117 [] c = "v" -> 118

LowerChar(c) ==
    CASE c = "A" -> "a" [] c = "B" -> "b" [] c = "C" -> "c"
      [] c = "N" -> "n" [] c = "R" -> "r" [] OTHER -> c

\* str.lower()
Lower(s) == [i \in 1..Len(s) |-> LowerChar(s[i])]

RECURSIVE LStrip(_)
LStrip(s) == IF s # <<>> /\ Head(s) = " " THEN LStrip(Tail(s)) ELSE s

RECURSIVE RStrip(_)
RStrip(s) ==
    IF s # <<>> /\ s[Len(s)] = " " THEN RStrip(SubSeq(s, 1, Len(s) - 1)) ELSE s

\* str.strip()
Strip(s) == RStrip(LStrip(s))

\* Series.str.lower().str.strip(): missing cells stay missing
StrLowerStrip(v) == IF v = Null THEN Null ELSE Strip(Lower(v))

\* Python's s < t on strings: lexicographic by code point
RECURSIVE StrLess(_, _)
StrLess(s, t) ==
    IF t = <<>> THEN FALSE
    ELSE IF s = <<>> THEN TRUE
    ELSE IF Head(s) = Head(t) THEN StrLess(Tail(s), Tail(t))
    ELSE Code(Head(s)) < Code(Head(t))

(***************************************************************************)
(* Frames.                                                                 *)
(***************************************************************************)
OrgCol == "org name"     \* label of the uploaded table's name column

Frame(cols, rows) == [cols |-> cols, rows |-> rows]

\* pd.DataFrame()
EmptyFrame == Frame({}, <<>>)

\* DataFrame.empty: no rows or no columns
IsEmpty(df) == df.rows = <<>> \/ df.cols = {}

\* the rows of s at the positions in keep, in frame order
RECURSIVE PickFrom(_, _, _)
PickFrom(s, keep, i) ==
    IF i > Len(s) THEN <<>>
    ELSE (IF i \in keep THEN <<s[i]>> ELSE <<>>) \o PickFrom(s, keep, i + 1)

\* Series.dropna().unique().tolist(): first occurrences, in order
Unique(s) ==
    PickFrom(s, {i \in 1..Len(s) :
                    s[i] # Null /\ \A j \in 1..(i - 1) : s[j] # s[i]}, 1)

(***************************************************************************)
(* load_bmf_data and the inputs of a run.                                  *)
(***************************************************************************)
\* A reference row; aux stands for its ntee_cd, income_amt and asset_amt.
RefRecords ==
    { [name |-> <<"r", "c">>,      ein |-> <<"1", "2">>,
       revenue_amt |-> <<"1", "0", "0", "0">>, aux |-> <<"A">>],
      [name |-> <<"R", "C", " ">>, ein |-> <<"1", "2">>,
       revenue_amt |-> <<"5", "0", "0">>,      aux |-> <<"B">>],
      [name |-> <<"r", "c">>,      ein |-> <<"3", "4">>,
       revenue_amt |-> <<"5", "0", "0">>,      aux |-> <<"C">>],
      [name |-> <<"b">>,           ein |-> <<"1", "2">>,
       revenue_amt |-> Null,                   aux |-> <<"N">>],
      [name |-> <<" ", "B">>,      ein |-> <<"3", "4">>,
       revenue_amt |-> <<"1", "0", "0", "0">>, aux |-> <<"R">>] }

SeqsUpTo(S, n) == UNION {[1..k -> S] : k \in 0..n}

RefTables == SeqsUpTo(RefRecords, MaxBmf)

\* Raw cells of the uploaded name column.
UpNames == { <<"R", "c">>, <<"r", "c", " ">>, <<"b">>, <<"u">>, <<"v">> }

UploadedFiles == SeqsUpTo(UpNames, MaxUp)

\* The returns of load_bmf_data: an empty frame at lines 19, 24 and 35, the
\* concatenated table at line 37.
LoadBmfData(outcome, table) ==
    IF outcome \in {"no_folder", "no_csv", "no_ein_column"} THEN <<>> ELSE table

BlankRow(i, cell) ==
    [up |-> i, org |-> cell, name |-> Null, EIN |-> Null,
     revenue_amt |-> Null, aux |-> Null, enr |-> Null]

\* pd.read_csv(uploaded_file, dtype=str)
ReadCsv(file) == Frame({OrgCol}, [i \in 1..Len(file) |-> BlankRow(i, file[i])])

IdleCols ==
    /\ possible_columns = <<>>
    /\ kw = 0
    /\ scores = <<>>
    /\ col_result = None
    /\ cpc = "idle"

Init ==
    /\ \E outcome \in {"no_folder", "no_csv", "no_ein_column", "loaded"} :
         \E table \in RefTables :
            /\ bmf_load = outcome
            /\ bmf_data = LoadBmfData(outcome, table)
    /\ uploaded_file \in UploadedFiles
    /\ org_name_column = None
    /\ uploaded_data = EmptyFrame
    /\ eins_to_fetch = <<>>
    /\ tasks = <<>>
    /\ enriched_data_list = <<>>
    /\ propublica_df = EmptyFrame
    /\ dedup_local = EmptyFrame
    /\ pc = "upload"
    /\ error = None
    /\ IdleCols

(***************************************************************************)
(* clean_uploaded_data (lines 54-69).  The one-column list handed to       *)
(* find_best_column_match makes it return that column on either of its     *)
(* returns (lines 49 and 51).                                              *)
(***************************************************************************)
CleanFrame(df) ==
    Frame(df.cols,
          [i \in 1..Len(df.rows) |->
              [df.rows[i] EXCEPT !.org = StrLowerStrip(df.rows[i].org)]])

CleanUploadedData ==
    /\ pc = "upload"
    /\ LET df == ReadCsv(uploaded_file) IN
         IF IsEmpty(df)
         THEN /\ pc' = "aborted"
              /\ UNCHANGED <<uploaded_data, org_name_column>>
         ELSE /\ pc' = "ready"
              /\ org_name_column' = OrgCol
              /\ uploaded_data' = CleanFrame(df)
    /\ UNCHANGED <<bmf_load, bmf_data, uploaded_file, eins_to_fetch, tasks,
                   enriched_data_list, propublica_df, dedup_local, error>>
    /\ UNCHANGED colVars

(***************************************************************************)
(* match_eins_in_bmf (lines 72-89).                                        *)
(***************************************************************************)
\* line 78
NormalizeBmf(bmf) ==
    [i \in 1..Len(bmf) |-> [bmf[i] EXCEPT !.name = StrLowerStrip(bmf[i].name)]]

\* the rows one left row yields in a left merge on its name
JoinBmfRow(l, right) ==
    LET hits == SelectSeq(right, LAMBDA r : r.name = l.org) IN
    IF hits = <<>> THEN <<l>>
    ELSE [i \in 1..Len(hits) |->
            [l EXCEPT !.name = hits[i].name, !.EIN = hits[i].ein,
                      !.revenue_amt = hits[i].revenue_amt,
                      !.aux = hits[i].aux]]

\* an inner merge: a left row without a match yields nothing
RECURSIVE MergeInnerBmf(_, _)
MergeInnerBmf(left, right) ==
    IF left = <<>> THEN <<>>
    ELSE SelectSeq(JoinBmfRow(Head(left), right), LAMBDA r : r.name # Null)
            \o MergeInnerBmf(Tail(left), right)

\* lines 81-86: merge(how='left', left_on=org_name_column, right_on='name')
RECURSIVE MergeLeftBmf(_, _)
MergeLeftBmf(left, right) ==
    IF left = <<>> THEN <<>>
    ELSE JoinBmfRow(Head(left), right) \o MergeLeftBmf(Tail(left), right)

MatchedCols == {"name", "EIN", "ntee_cd", "revenue_amt", "income_amt", "asset_amt"}

MatchEinsInBmf ==
    /\ pc = "ready"
    /\ pc' = "matched"
    /\ IF bmf_data = <<>>
       THEN UNCHANGED <<bmf_data, uploaded_data>>
       ELSE /\ bmf_data' = NormalizeBmf(bmf_data)
            /\ uploaded_data' =
                 Frame(uploaded_data.cols \cup MatchedCols,
                       MergeLeftBmf(CleanFrame(uploaded_data).rows, bmf_data'))
    /\ UNCHANGED <<bmf_load, uploaded_file, org_name_column, eins_to_fetch,
                   tasks, enriched_data_list, propublica_df, dedup_local, error>>
    /\ UNCHANGED colVars

(***************************************************************************)
(* Steps 2 and 3 of the run (lines 147-158) and the lookups (104-128).     *)
(***************************************************************************)
\* lines 148-149: uploaded_data["EIN"] = "N/A" when the column is missing
EnsureEin(df) ==
    IF "EIN" \in df.cols THEN df
    ELSE Frame(df.cols \cup {"EIN"},
               [i \in 1..Len(df.rows) |-> [df.rows[i] EXCEPT !.EIN = NA]])

\* lines 151-152
EinsToFetch(df) ==
    SelectSeq(Unique([i \in 1..Len(df.rows) |-> df.rows[i].EIN]),
              LAMBDA e : e # NA)

\* Step 2, and Step 3 up to the creation of the batch's coroutines (line 127);
\* with no EIN to fetch the run goes on to Step 4 with an empty frame.
PrepareFetch ==
    /\ pc = "matched"
    /\ uploaded_data' = EnsureEin(uploaded_data)
    /\ eins_to_fetch' = EinsToFetch(uploaded_data')
    /\ propublica_df' = EmptyFrame
    /\ IF eins_to_fetch' # <<>>
       THEN /\ tasks' = [i \in 1..Len(SelectSeq(eins_to_fetch', LAMBDA e : e # NA))
                            |-> "pending"]
            /\ pc' = "fetching"
       ELSE /\ tasks' = <<>>
            /\ pc' = "merge"
    /\ UNCHANGED <<bmf_load, bmf_data, uploaded_file, org_name_column,
                   enriched_data_list, dedup_local, error>>
    /\ UNCHANGED colVars

\* what fetch_propublica_async returns for a 200 response with a JSON body
\* (lines 111-119); enr stands for the URL built from the EIN and for the
\* fields read from the response for that EIN
EnrichmentResult(ein) == [EIN |-> ein, enr |-> ein]

FetchUnchanged ==
    /\ UNCHANGED <<bmf_load, bmf_data, uploaded_file, org_name_column,
                   uploaded_data, eins_to_fetch, enriched_data_list,
                   propublica_df, dedup_local, pc, error>>
    /\ UNCHANGED colVars

\* lines 108-119: status 200 and a body that parses
FetchOk(i) ==
    /\ pc = "fetching"
    /\ tasks[i] = "pending"
    /\ tasks' = [tasks EXCEPT ![i] = "ok"]
    /\ FetchUnchanged

\* lines 120-121: any other status
FetchHttpError(i) ==
    /\ pc = "fetching"
    /\ tasks[i] = "pending"
    /\ tasks' = [tasks EXCEPT ![i] = "none"]
    /\ FetchUnchanged

\* lines 122-123: an exception of the transport or of the parse
FetchException(i) ==
    /\ pc = "fetching"
    /\ tasks[i] = "pending"
    /\ tasks' = [tasks EXCEPT ![i] = "none"]
    /\ FetchUnchanged

\* line 128: asyncio.gather returns one value per coroutine, in the order of
\* ein_list; a value is <<result>> for a dict and <<>> for None
Gather(eins, status) ==
    [i \in 1..Len(eins) |->
        IF status[i] = "ok" THEN <<EnrichmentResult(eins[i])>> ELSE <<>>]

\* pd.DataFrame(list): a list whose first element is a dict is read as a list
\* of dicts, and a None among them has no keys(); a list whose first element
\* is None becomes one object column labelled 0
FrameRaises(list) ==
    /\ list # <<>>
    /\ list[1] # <<>>
    /\ \E i \in 1..Len(list) : list[i] = <<>>

DataFrameOf(list) ==
    IF list = <<>> THEN EmptyFrame
    ELSE IF list[1] = <<>>
    THEN Frame({"0"}, [i \in 1..Len(list) |-> [EIN |-> Null, enr |-> Null]])
    ELSE Frame({"EIN", "enr"}, [i \in 1..Len(list) |-> list[i][1]])

\* lines 157-158, once every coroutine of the batch has returned
FetchAllDone ==
    /\ pc = "fetching"
    /\ \A i \in 1..Len(tasks) : tasks[i] # "pending"
    /\ enriched_data_list' = Gather(eins_to_fetch, tasks)
    /\ IF FrameRaises(enriched_data_list')
       THEN /\ pc' = "raised"
            /\ error' = "AttributeError: 'NoneType' object has no attribute 'keys'"
            /\ UNCHANGED propublica_df
       ELSE /\ pc' = "merge"
            /\ propublica_df' = DataFrameOf(enriched_data_list')
            /\ UNCHANGED error
    /\ UNCHANGED <<bmf_load, bmf_data, uploaded_file, org_name_column,
                   uploaded_data, eins_to_fetch, tasks, dedup_local>>
    /\ UNCHANGED colVars

(***************************************************************************)
(* Step 4 (lines 160-168).                                                 *)
(***************************************************************************)
\* lines 162-164
EnsureEinRight(df) ==
    IF "EIN" \in df.cols THEN df
    ELSE Frame(df.cols \cup {"EIN"},
               [i \in 1..Len(df.rows) |-> [df.rows[i] EXCEPT !.EIN = NA]])

\* the rows one left row yields in a left merge on EIN
JoinEinRow(l, right) ==
    LET hits == SelectSeq(right, LAMBDA r : r.EIN = l.EIN) IN
    IF hits = <<>> THEN <<l>>
    ELSE [i \in 1..Len(hits) |-> [l EXCEPT !.enr = hits[i].enr]]

\* line 166: merge(propublica_df, on="EIN", how="left")
RECURSIVE MergeLeftEin(_, _)
MergeLeftEin(left, right) ==
    IF left = <<>> THEN <<>>
    ELSE JoinEinRow(Head(left), right) \o MergeLeftEin(Tail(left), right)

MergeEnrichment ==
    /\ pc = "merge"
    /\ pc' = "dedup"
    /\ IF ~IsEmpty(propublica_df)
       THEN /\ propublica_df' = EnsureEinRight(propublica_df)
            /\ uploaded_data' =
                 Frame(uploaded_data.cols \cup (propublica_df'.cols \ {"EIN"}),
                       MergeLeftEin(uploaded_data.rows, propublica_df'.rows))
       ELSE UNCHANGED <<propublica_df, uploaded_data>>
    /\ UNCHANGED <<bmf_load, bmf_data, uploaded_file, org_name_column,
                   eins_to_fetch, tasks, enriched_data_list, dedup_local, error>>
    /\ UNCHANGED colVars

(***************************************************************************)
(* deduplicate_data (lines 92-101).                                        *)
(***************************************************************************)
\* The order of sort_values(by=["EIN", "revenue_amt"], ascending=[True,
\* False]): EIN ascending, then revenue_amt descending, both compared as the
\* strings they are, missing values last in either direction.
Precedes(a, b) ==
    IF a.EIN # b.EIN
    THEN a.EIN # Null /\ (b.EIN = Null \/ StrLess(a.EIN, b.EIN))
    ELSE /\ a.revenue_amt # b.revenue_amt
         /\ a.revenue_amt # Null
         /\ (b.revenue_amt = Null \/ StrLess(b.revenue_amt, a.revenue_amt))

\* r put into the sorted s behind every row that does not come after it
RECURSIVE InsertSorted(_, _)
InsertSorted(r, s) ==
    IF s = <<>> THEN <<r>>
    ELSE IF Precedes(r, Head(s)) THEN <<r>> \o s
    ELSE <<Head(s)>> \o InsertSorted(r, Tail(s))

\* sort_values on several keys is a stable sort
RECURSIVE SortValues(_)
SortValues(rows) ==
    IF rows = <<>> THEN <<>>
    ELSE InsertSorted(rows[Len(rows)],
                      SortValues(SubSeq(rows, 1, Len(rows) - 1)))

\* drop_duplicates(keep=False): every row of a duplicated key is dropped
DropDuplicatesKeepNone(rows, keys) ==
    PickFrom(rows, {i \in 1..Len(rows) :
                      \A j \in 1..Len(rows) : j # i => keys[j] # keys[i]}, 1)

\* drop_duplicates(subset=[key], keep="first"), keys[i] being the key of
\* rows[i]; missing keys are equal keys
DropDuplicates(rows, keys) ==
    PickFrom(rows, {i \in 1..Len(rows) :
                      \A j \in 1..(i - 1) : keys[j] # keys[i]}, 1)

\* the column EIN of the rows
EinKeys(rows) == [i \in 1..Len(rows) |-> rows[i].EIN]

\* the column org_name_column of the rows
OrgKeys(rows) == [i \in 1..Len(rows) |-> rows[i].org]

\* the first pass with the second pass's subset
DedupEinFrameByName(rows) ==
    DropDuplicates(SortValues(rows), OrgKeys(SortValues(rows)))

\* lines 94-95
DedupEinFrame(rows) ==
    DropDuplicates(SortValues(rows), EinKeys(SortValues(rows)))

\* lines 98-99
DedupNameFrame(rows) ==
    DropDuplicates(SortValues(rows), OrgKeys(SortValues(rows)))

SortColumns == {"EIN", "revenue_amt"}

\* sort_values raises KeyError for the first of its keys that is no column
MissingSortColumn(df) ==
    IF "EIN" \notin df.cols THEN "KeyError: 'EIN'" ELSE "KeyError: 'revenue_amt'"

DedupUnchanged ==
    /\ UNCHANGED <<bmf_load, bmf_data, uploaded_file, org_name_column,
                   eins_to_fetch, tasks, enriched_data_list, propublica_df>>
    /\ UNCHANGED colVars

\* lines 93-95
DedupEinPass ==
    /\ pc = "dedup"
    /\ IF "EIN" \in uploaded_data.cols
       THEN IF SortColumns \subseteq uploaded_data.cols
            THEN /\ dedup_local' = Frame(uploaded_data.cols,
                                         DedupEinFrame(uploaded_data.rows))
                 /\ pc' = "dedup_name"
                 /\ UNCHANGED error
            ELSE /\ pc' = "raised"
                 /\ error' = MissingSortColumn(uploaded_data)
                 /\ UNCHANGED dedup_local
       ELSE /\ dedup_local' = uploaded_data
            /\ pc' = "dedup_name"
            /\ UNCHANGED error
    /\ UNCHANGED uploaded_data
    /\ DedupUnchanged

\* lines 97-99
DedupNamePass ==
    /\ pc = "dedup_name"
    /\ IF org_name_column \in dedup_local.cols
       THEN IF SortColumns \subseteq dedup_local.cols
            THEN /\ dedup_local' = Frame(dedup_local.cols,
                                         DedupNameFrame(dedup_local.rows))
                 /\ pc' = "dedup_return"
                 /\ UNCHANGED error
            ELSE /\ pc' = "raised"
                 /\ error' = MissingSortColumn(dedup_local)
                 /\ UNCHANGED dedup_local
       ELSE /\ pc' = "dedup_return"
            /\ UNCHANGED <<dedup_local, error>>
    /\ UNCHANGED uploaded_data
    /\ DedupUnchanged

\* line 101, and the assignment of the returned frame at line 171
DedupReturn ==
    /\ pc = "dedup_return"
    /\ uploaded_data' = dedup_local
    /\ pc' = "done"
    /\ UNCHANGED <<dedup_local, error>>
    /\ DedupUnchanged

(***************************************************************************)
(* The enrichment run.                                                     *)
(***************************************************************************)
Next ==
    \/ CleanUploadedData
    \/ MatchEinsInBmf
    \/ PrepareFetch
    \/ \E i \in 1..Len(tasks) : FetchOk(i)
    \/ \E i \in 1..Len(tasks) : FetchHttpError(i)
    \/ \E i \in 1..Len(tasks) : FetchException(i)
    \/ FetchAllDone
    \/ MergeEnrichment
    \/ DedupEinPass
    \/ DedupNamePass
    \/ DedupReturn

Spec == Init /\ [][Next]_vars

(***************************************************************************)
(* deduplicate_data called on its own, on tables with or without each of   *)
(* the columns it reads.                                                   *)
(***************************************************************************)
DedupCells ==
    [org : {<<"r", "c">>, <<"b">>},
     EIN : {<<"1", "2">>, <<"3", "4">>, Null},
     revenue_amt : {<<"1", "0", "0", "0">>, <<"5", "0", "0">>}]

\* the frame with the columns cols whose rows hold the cells of those columns
TableOf(cols, cells) ==
    Frame(cols,
          [i \in 1..Len(cells) |->
             [up |-> i,
              org |-> IF OrgCol \in cols THEN cells[i].org ELSE Null,
              name |-> Null,
              EIN |-> IF "EIN" \in cols THEN cells[i].EIN ELSE Null,
              revenue_amt |-> IF "revenue_amt" \in cols
                              THEN cells[i].revenue_amt ELSE Null,
              aux |-> Null,
              enr |-> Null]])

InitDedup ==
    /\ \E cols \in SUBSET {OrgCol, "EIN", "revenue_amt"} :
         \E cells \in SeqsUpTo(DedupCells, MaxRows) \ {<<>>} :
            uploaded_data = TableOf(cols, cells)
    /\ org_name_column = OrgCol
    /\ pc = "dedup"
    /\ bmf_load = "no_folder"
    /\ bmf_data = <<>>
    /\ uploaded_file = <<>>
    /\ eins_to_fetch = <<>>
    /\ tasks = <<>>
    /\ enriched_data_list = <<>>
    /\ propublica_df = EmptyFrame
    /\ dedup_local = EmptyFrame
    /\ error = None
    /\ IdleCols

NextDedup ==
    \/ DedupEinPass
    \/ DedupNamePass
    \/ DedupReturn

SpecDedup == InitDedup /\ [][NextDedup]_vars

(***************************************************************************)
(* find_best_column_match (lines 42-51), one keyword of its loop at a      *)
(* time.  fuzzywuzzy's score of a keyword against a column name is an      *)
(* input: any value of ScoreVals for each normalized name.                 *)
(***************************************************************************)
Keywords ==
    <<"company", "organization", "name", "nonprofit", "business", "entity">>

Threshold == 60

ScoreVals == {0, 59, 60, 100}

ColNames == { <<"N">>, <<"n", " ">>, <<"i">> }

\* line 44
NormalizedColumns(columns) ==
    [i \in 1..Len(columns) |-> Strip(Lower(columns[i]))]

\* list.index(x)
IndexOf(s, x) == CHOOSE i \in 1..Len(s) : s[i] = x /\ \A j \in 1..(i - 1) : s[j] # x

\* process.extractOne over a non-empty list: max() of the scored choices,
\* the first of them on equal scores
ExtractOne(sc, choices) ==
    LET best == CHOOSE i \in 1..Len(choices) :
                   /\ \A j \in 1..Len(choices) : sc[choices[j]] <= sc[choices[i]]
                   /\ \A j \in 1..(i - 1) : sc[choices[j]] < sc[choices[i]]
    IN [match |-> choices[best], score |-> sc[choices[best]]]

InitCols ==
    /\ possible_columns \in SeqsUpTo(ColNames, MaxCols)
    /\ kw = 1
    /\ scores = <<>>
    /\ col_result = None
    /\ cpc = "loop"
    /\ bmf_load = "no_folder"
    /\ bmf_data = <<>>
    /\ uploaded_file = <<>>
    /\ org_name_column = None
    /\ uploaded_data = EmptyFrame
    /\ eins_to_fetch = <<>>
    /\ tasks = <<>>
    /\ enriched_data_list = <<>>
    /\ propublica_df = EmptyFrame
    /\ dedup_local = EmptyFrame
    /\ pc = "idle"
    /\ error = None

ColUnchanged ==
    UNCHANGED <<bmf_load, bmf_data, uploaded_file, org_name_column,
                uploaded_data, eins_to_fetch, tasks, enriched_data_list,
                propublica_df, dedup_local, pc>>

\* lines 46-49: one keyword.  extractOne returns None for an empty list, and
\* unpacking None at line 47 raises TypeError.
KeywordStep ==
    /\ cpc = "loop"
    /\ kw <= Len(Keywords)
    /\ IF possible_columns = <<>>
       THEN /\ cpc' = "raised"
            /\ error' = "TypeError: cannot unpack non-iterable NoneType object"
            /\ UNCHANGED <<kw, scores, col_result>>
       ELSE LET normalized_columns == NormalizedColumns(possible_columns) IN
            \E sc \in [{normalized_columns[i] : i \in 1..Len(normalized_columns)}
                          -> ScoreVals] :
               LET one == ExtractOne(sc, normalized_columns) IN
               /\ scores' = Append(scores, one.score)
               /\ IF one.score >= Threshold
                  THEN /\ col_result' =
                            possible_columns[IndexOf(normalized_columns, one.match)]
                       /\ cpc' = "returned"
                       /\ UNCHANGED kw
                  ELSE /\ kw' = kw + 1
                       /\ UNCHANGED <<col_result, cpc>>
               /\ UNCHANGED error
    /\ UNCHANGED possible_columns
    /\ ColUnchanged

\* line 51, after the last keyword
FallBack ==
    /\ cpc = "loop"
    /\ kw > Len(Keywords)
    /\ col_result' = IF possible_columns # <<>> THEN possible_columns[1] ELSE None
    /\ cpc' = "returned"
    /\ UNCHANGED <<possible_columns, kw, scores, error>>
    /\ ColUnchanged

NextCols ==
    \/ KeywordStep
    \/ FallBack

SpecCols == InitCols /\ [][NextCols]_vars

(***************************************************************************)
(* Properties.                                                             *)
(***************************************************************************)
Indices(s) == 1..Len(s)

\* the batch of lookups has been gathered
BatchReturned == tasks # <<>> /\ pc # "fetching"

OkEins == {eins_to_fetch[i] : i \in {j \in Indices(tasks) : tasks[j] = "ok"}}

FailedEins == {eins_to_fetch[i] : i \in {j \in Indices(tasks) : tasks[j] = "none"}}

\* the table Step 1 yields for the uploaded file and the reference table
MatchedRows ==
    MergeLeftBmf(CleanFrame(ReadCsv(uploaded_file)).rows, NormalizeBmf(bmf_data))

\* the reference rows whose normalized name is that of uploaded row i
RefHits(i) ==
    {j \in Indices(bmf_data) :
        StrLowerStrip(bmf_data[j].name) = StrLowerStrip(uploaded_file[i])}

\* int(s) of a string of digits
RECURSIVE ToNumber(_)
ToNumber(s) ==
    IF s = <<>> THEN 0
    ELSE 10 * ToNumber(SubSeq(s, 1, Len(s) - 1)) + (Code(s[Len(s)]) - 48)

\* C1: once the batch of N lookups has returned, the list that
\* fetch_all_propublica returned holds exactly one result for each of the M
\* numbers whose lookup succeeded and no entry for a number whose lookup failed.
C1_BatchHoldsOnlySuccesses ==
    BatchReturned =>
        /\ Len(enriched_data_list) = Cardinality(OkEins)
        /\ \A k \in Indices(enriched_data_list) :
              /\ enriched_data_list[k] # <<>>
              /\ enriched_data_list[k][1].EIN \in OkEins

\* C2: after the identifying-number pass, the surviving row of every group of
\* merged rows sharing an EIN has the numerically greatest revenue of the group.
C2_SurvivorHasGreatestRevenue ==
    pc = "dedup_name" =>
        \A k \in Indices(dedup_local.rows) :
           \A m \in Indices(uploaded_data.rows) :
              LET kept == dedup_local.rows[k]
                  row == uploaded_data.rows[m]
              IN (row.EIN = kept.EIN /\ row.revenue_amt # Null) =>
                    /\ kept.revenue_amt # Null
                    /\ ToNumber(kept.revenue_amt) >= ToNumber(row.revenue_amt)

\* C3: after both passes of deduplicate_data on a merged table with the EIN
\* and the name column, no two rows of the output share a non-null EIN.
C3_NoSharedEin ==
    (pc = "done" /\ {"EIN", OrgCol} \subseteq uploaded_data.cols) =>
        \A i, j \in Indices(uploaded_data.rows) :
           (i # j /\ uploaded_data.rows[i].EIN # Null) =>
              uploaded_data.rows[i].EIN # uploaded_data.rows[j].EIN

\* a finished run whose matched table held two rows for one EIN and whose
\* output still holds two rows
C3_Witness ==
    /\ pc = "done"
    /\ Len(uploaded_data.rows) >= 2
    /\ \E i, j \in Indices(MatchedRows) :
          /\ i # j
          /\ MatchedRows[i].EIN # Null
          /\ MatchedRows[i].EIN = MatchedRows[j].EIN

\* C4: the output of a finished run holds, for every uploaded row whose
\* normalized name matches no reference record, a row with that name and a
\* null or "N/A" EIN, however many distinct unmatched names were uploaded.
C4_UnmatchedRowsSurvive ==
    pc = "done" =>
        \A i \in Indices(uploaded_file) :
           RefHits(i) = {} =>
              \E k \in Indices(uploaded_data.rows) :
                 /\ uploaded_data.rows[k].org = StrLowerStrip(uploaded_file[i])
                 /\ uploaded_data.rows[k].EIN \in {Null, NA}

\* the values in a sequence of keys
KeySet(keys) == {keys[k] : k \in Indices(keys)}

\* out holds every key of from exactly once, and no other key
OnePerKey(from, out) ==
    /\ \A v \in KeySet(from) : Cardinality({k \in Indices(out) : out[k] = v}) = 1
    /\ KeySet(out) \subseteq KeySet(from)

\* C5: the frame deduplicate_data returns for a merged table with both key
\* columns holds exactly one row for each distinct EIN of the merged table and
\* exactly one row for each distinct name of the merged table.  (Stated for
\* merged tables in which every row has an EIN.)
C5_OneRowPerEinAndPerName ==
    (pc = "dedup_return" /\ {"EIN", OrgCol} \subseteq uploaded_data.cols
       /\ \A k \in Indices(uploaded_data.rows) : uploaded_data.rows[k].EIN # Null) =>
        /\ OnePerKey(EinKeys(uploaded_data.rows), EinKeys(dedup_local.rows))
        /\ OnePerKey(OrgKeys(uploaded_data.rows), OrgKeys(dedup_local.rows))

\* C5 as amended: on a merged table with the EIN, name and revenue columns the
\* first pass yields exactly one row for each distinct EIN of the merged table
\* (missing EINs being one group), and the second pass yields exactly one row
\* for each distinct name of the first pass's output.
C5_OneRowPerKeyOfEachPass ==
    [][ /\ (pc = "dedup" /\ pc' = "dedup_name"
              /\ {"EIN", OrgCol} \subseteq uploaded_data.cols) =>
                 OnePerKey(EinKeys(uploaded_data.rows), EinKeys(dedup_local'.rows))
        /\ (pc = "dedup_name" /\ pc' = "dedup_return"
              /\ {"EIN", OrgCol} \subseteq uploaded_data.cols) =>
                 OnePerKey(OrgKeys(dedup_local.rows), OrgKeys(dedup_local'.rows)) ]_vars

\* both passes have run and each has dropped a row
C5_Witness ==
    /\ pc = "dedup_return"
    /\ {"EIN", OrgCol} \subseteq uploaded_data.cols
    /\ Len(dedup_local.rows) + 2 <= Len(uploaded_data.rows)
    /\ Cardinality(KeySet(EinKeys(uploaded_data.rows))) > Len(dedup_local.rows)

\* C6: in a run where some lookup failed, the run does not raise, the failed
\* EIN has no row in the enrichment frame, and after Step 4 every row keeps its
\* locally matched fields, rows of a failed EIN have no enrichment and rows of
\* a successful EIN carry the enrichment of their own EIN.
C6_FailedLookupDegradesOnly ==
    (BatchReturned /\ FailedEins # {}) =>
        /\ pc # "raised"
        /\ \A k \in Indices(propublica_df.rows) :
              propublica_df.rows[k].EIN \notin FailedEins
        /\ pc = "dedup" =>
              /\ [k \in Indices(uploaded_data.rows) |->
                     [uploaded_data.rows[k] EXCEPT !.enr = Null]] = MatchedRows
              /\ \A k \in Indices(uploaded_data.rows) :
                    LET row == uploaded_data.rows[k] IN
                    /\ row.EIN \in FailedEins => row.enr = Null
                    /\ row.EIN \in OkEins => row.enr = row.EIN

\* C7: with an empty reference table, a run on a non-empty uploaded table does
\* not raise: Step 1 returns the cleaned table unchanged, every row gets the
\* sentinel EIN, no lookup is issued and deduplicate_data returns a table.
C7_RunsWithoutReferenceData ==
    (bmf_data = <<>> /\ uploaded_file # <<>>) =>
        /\ pc # "raised"
        /\ pc = "matched" => uploaded_data = CleanFrame(ReadCsv(uploaded_file))
        /\ pc \in {"merge", "dedup", "dedup_name", "dedup_return"} =>
              /\ tasks = <<>>
              /\ \A k \in Indices(uploaded_data.rows) :
                    uploaded_data.rows[k].EIN = NA

\* C8: on a table with the name column and no EIN column deduplicate_data does
\* not fail and returns one row per name; on a table with the EIN column and no
\* name column it does not fail and returns one row per EIN.  (Stated for
\* tables that carry the revenue column.)
C8_PassesNeedOnlyTheirKey ==
    (pc \in {"raised", "done"} /\ "revenue_amt" \in uploaded_data.cols
       /\ uploaded_data.cols \cap {"EIN", OrgCol} \in {{"EIN"}, {OrgCol}}) =>
        /\ pc = "done"
        /\ OrgCol \in uploaded_data.cols =>
              \A i, j \in Indices(uploaded_data.rows) :
                 i # j => uploaded_data.rows[i].org # uploaded_data.rows[j].org
        /\ "EIN" \in uploaded_data.cols =>
              \A i, j \in Indices(uploaded_data.rows) :
                 i # j => uploaded_data.rows[i].EIN # uploaded_data.rows[j].EIN

\* C9: when no keyword's best match reaches the threshold,
\* find_best_column_match returns the first column of the list, and None for
\* the empty list, without raising.
C9_FallsBackToFirstColumn ==
    (cpc \in {"returned", "raised"}
       /\ \A k \in Indices(scores) : scores[k] < Threshold) =>
        /\ cpc = "returned"
        /\ col_result = IF possible_columns = <<>> THEN None
                        ELSE possible_columns[1]

\* the rows of the matched table that come from uploaded row i, in order
OutOf(i) == SelectSeq(uploaded_data.rows, LAMBDA r : r.up = i)

\* the pulled-in fields of a sequence of rows
Pulled(rows) ==
    [k \in Indices(rows) |->
        <<rows[k].name, rows[k].EIN, rows[k].revenue_amt, rows[k].aux>>]

\* C10: with a non-empty reference table, match_eins_in_bmf yields for each
\* uploaded row max(1, k) rows, k being the number of reference rows whose
\* lowercased, trimmed name equals the row's; with k > 0 one row for each of
\* those reference rows carrying its EIN and auxiliary fields, with k = 0 a
\* row of nulls in the pulled-in fields; uploaded rows whose names differ only
\* by case or surrounding whitespace get the same matches.
C10_LeftJoinWithFanOut ==
    (pc = "matched" /\ bmf_data # <<>>) =>
        /\ \A i \in Indices(uploaded_file) :
              LET hits == RefHits(i)
                  out == OutOf(i)
              IN /\ Len(out) = IF hits = {} THEN 1 ELSE Cardinality(hits)
                 /\ \A k \in Indices(out) :
                       out[k].org = StrLowerStrip(uploaded_file[i])
                 /\ hits = {} => Pulled(out) = <<<<Null, Null, Null, Null>>>>
                 /\ \A j \in hits :
                       Cardinality({k \in Indices(out) :
                          Pulled(out)[k] =
                             <<StrLowerStrip(bmf_data[j].name), bmf_data[j].ein,
                               bmf_data[j].revenue_amt, bmf_data[j].aux>>})
                         = Cardinality({h \in hits : bmf_data[h] = bmf_data[j]})
        /\ \A i \in Indices(uploaded_file) : \A j \in Indices(uploaded_file) :
              StrLowerStrip(uploaded_file[i]) = StrLowerStrip(uploaded_file[j])
                 => Pulled(OutOf(i)) = Pulled(OutOf(j))
        /\ \A k \in Indices(uploaded_data.rows) :
              uploaded_data.rows[k].up \in Indices(uploaded_file)

\* two uploaded rows that differ in case or whitespace only, each matching
\* two reference rows
C10_Witness ==
    /\ pc = "matched"
    /\ \E i, j \in Indices(uploaded_file) :
          /\ uploaded_file[i] # uploaded_file[j]
          /\ StrLowerStrip(uploaded_file[i]) = StrLowerStrip(uploaded_file[j])
          /\ Cardinality(RefHits(i)) = 2
          /\ Len(OutOf(i)) = 2
          /\ Len(OutOf(j)) = 2

====
